---- MODULE Spec2Model ----
(***************************************************************************)
(* A model of the go-exasol-client session and bulk-transfer engine.       *)
(*                                                                         *)
(*   src/unnamed/part_000  websocket transport (send / asyncSend) and the  *)
(*                         session API (Connect, Execute, FetchChan, ...)  *)
(*   src/bulk-api.go       bulk IMPORT / EXPORT orchestration              *)
(*                                                                         *)
(* One behaviour follows one caller scenario, drawn in Init (job):         *)
(*   "import"  a StreamExecute call (retry loop over streamExecuteNoRetry) *)
(*   "export"  a StreamQuery call (background retry loop over streamQuery) *)
(*   "execute" Execute calls with or without bindings                      *)
(*   "close"   a StreamQuery call on a healthy server whose stream the     *)
(*             caller closes (Rows.Close)                                  *)
(*   "fetch"   a FetchChan call and the consumer of its channel            *)
(* All of them share the one websocket of the session (wire).              *)
(***************************************************************************)
EXTENDS Naturals, Sequences, FiniteSets

(* ------------------------------ bounds -------------------------------- *)

\* The largest Conf.Timeout (seconds) drawn in Init.
MaxTimeout == 1
\* Chunks the caller supplies on the data channel of an import, and chunks
\* the server has to send in one export attempt.
MaxChunks == 1
\* Execute calls the caller makes.
MaxCalls == 2
\* Callers that call Rows.Close on the stream of one export.
MaxClosers == 2
\* The largest row count of a result set, and its number of columns.
MaxRows == 3
NumCols == 2
\* Fetch requests one FetchChan call is followed for.
MaxFetches == 4

(* ------------------------- program constants -------------------------- *)

\* for range []int{1, 2}
StreamExecuteAttempts == 2
\* for i := 0; i <= 2; i++
StreamQueryAttempts == 3
\* make(chan []byte, 1)
DataChanCap == 1
\* make(chan []interface{}, 1000)
FetchChanCap == 1000

Attempts == 1..StreamQueryAttempts

(* ------------------------------ errors -------------------------------- *)

\* An error value: the signature of its text and the prefix it was wrapped
\* with.  "nil" is Go's nil error.
NoErr == [sig |-> "nil", ctx |-> "none"]
NewErr(s) == [sig |-> s, ctx |-> "none"]

\* "... failed after 0 bytes ... Connection refused ..."
RetryErr == NewErr("refused0")
\* Any other server or transport error text.
OtherErr == NewErr("other")

\* c.error("WebSocket API Error sending: %s", err)
SendErr == NewErr("send")
\* NewProxy failed
ProxyErr == NewErr("proxy")

\* fmt.Errorf("Timed out doing StreamExecute") / ("Timed out doing BulkQuery")
TimeoutErr == NewErr("timeout")

\* fmt.Errorf("Unable to bulk import data: %s\n%s", origSQL, err): the text
\* of err is kept behind the new prefix.
WrapImport(e) == [sig |-> e.sig, ctx |-> "import"]

\* fmt.Errorf("Unable to BulkQuery: %s", rows.Error)
WrapBulkQuery(e) == [sig |-> e.sig, ctx |-> "bulkquery"]

\* regexp `failed after 0 bytes.+Connection refused` on err.Error()
retryableError(e) == e # NoErr /\ e.sig = "refused0"

\* What the response to the IMPORT / EXPORT command can be.
RespOutcomes == {NoErr, RetryErr, OtherErr}

\* The error a forced shutdown of the endpoint produces.
StopErr == NewErr("stopped")

(* ------------------------------- state -------------------------------- *)

VARIABLES
  job,        \* the scenario of this behaviour
  Timeout,    \* Conf.Timeout
  CachePrepStmts, \* Conf.CachePrepStmts
  wire,       \* requests written to the websocket whose response is unread
  pc,         \* position of the task running the retry loop
  att,        \* the attempt in progress (0: none yet)
  proxyUp,    \* proxyUp[k]: the endpoint of attempt k is running
  aSt,        \* aSt[k]: the transfer task of attempt k
  bSt,        \* bSt[k]: the response task of attempt k
  moved,      \* moved[k]: bytes the endpoint of attempt k has transferred
  \* the frame of the attempt in progress
  err,        \* its err variable, shared with its transfer task
  bw,         \* its bytesWritten (import), shared with its transfer task
  dataErr,    \* chan error, capacity 1: <<>> or <<error>>
  respErr,    \* chan error, capacity 1: <<>> or <<error>>
  clock,      \* seconds since the time.After of its select
  \* the caller's side
  dataLeft,   \* chunks still on the caller's data channel (import)
  Data,       \* r.Data (export): the chunks in the channel, by attempt
  dataClosed, \* close(r.Data) has run
  rowsError,  \* r.Error
  bytesRead,  \* r.BytesRead
  result,     \* what StreamExecute returned: <<>> or <<error>>
  \* history of the attempt in progress
  xfer,       \* <<>> or <<what its transfer returned>>
  rsp,        \* <<>> or <<what its command response was>>
  first,      \* which of the two resolved first
  expired,    \* where the caller was when Timeout passed with neither
              \* failed and not both resolved: blocked in the "select", or
              \* past it ("wait"); "no": that did not happen
  raced,      \* an unsynchronised access to err changed what was read
  \* history of the call
  ret,        \* ret[k]: <<>> or <<what attempt k returned>>
  logged,     \* messages given to c.error by the retry loops
  rbw,        \* the bytesWritten result as read when the attempt returns
  \* the statement engine
  prepStmtCache,  \* c.prepStmtCache: sql -> statement handle (0: absent)
  x,          \* the frame of the Execute call in progress
  srvOpen,    \* the statement handles open on the server
  nextSth,    \* the last statement handle the server gave out
  calls,      \* Execute calls that have returned
  xlog,       \* the requests the call in progress wrote, with their outcome
  xret,       \* <<>> or <<[res, err] the last Execute call returned>>
  \* Rows.Close
  SuppressError,  \* Conf.SuppressError
  stop,       \* r.stop, chan bool of capacity 1: the signals in it
  cl,         \* cl[c]: the Close call of caller c
  \* FetchChan
  fc,         \* the frame of FetchChan and of its producer task
  ch,         \* the row channel: the rows in it
  chClosed,   \* close(ch) has run
  got,        \* the rows the consumer has received
  flog,       \* the requests FetchChan and its producer made
  \* Disconnect
  wsOpen,     \* c.ws is open
  todo        \* the cache entries the loop of Disconnect has yet to visit

confVars == <<job, Timeout, CachePrepStmts>>
closeVars == <<SuppressError, stop, cl>>
\* What no step of the bulk engine and of Execute changes.
fetchVars == <<fc, ch, chClosed, got, flog>>
discVars == <<wsOpen, todo>>
envVars == <<confVars, closeVars, fetchVars, discVars>>
taskVars == <<proxyUp, aSt, bSt, moved>>
frameVars == <<err, bw, dataErr, respErr, clock>>
histVars == <<xfer, rsp, first, expired, raced>>
callerVars == <<dataLeft, Data, dataClosed, rowsError, bytesRead, result>>
loopVars == <<att, ret, logged, rbw>>
bulkVars == <<pc, taskVars, frameVars, histVars, callerVars, loopVars>>
sessVars == <<prepStmtCache, x, srvOpen, nextSth, calls, xlog, xret>>
vars == <<envVars, wire, bulkVars, sessVars>>

(* ------------------------------ transport ----------------------------- *)

\* A request as written to the websocket: its command, the statement
\* handle it names (0: none), and which write it was.
Request(cmd, sth, id) == [cmd |-> cmd, sth |-> sth, id |-> id]

\* c.ws.WriteJSON(request): the request is on the wire until its response
\* is read; the server answers in the order the requests were written.
WriteJSON(w, req) == Append(w, req)

\* A request is outstanding from WriteJSON until a ReadJSON returned its
\* response.
Outstanding == Len(wire)

(* ------------------------------- Init --------------------------------- *)

InitBulk ==
  /\ pc = "idle"
  /\ att = 0
  /\ proxyUp = [k \in Attempts |-> FALSE]
  /\ aSt = [k \in Attempts |-> "none"]
  /\ bSt = [k \in Attempts |-> "none"]
  /\ moved = [k \in Attempts |-> 0]
  /\ err = NoErr
  /\ bw = 0
  /\ dataErr = <<>>
  /\ respErr = <<>>
  /\ clock = 0
  /\ Data = <<>>
  /\ dataClosed = FALSE
  /\ rowsError = NoErr
  /\ bytesRead = 0
  /\ result = <<>>
  /\ xfer = <<>>
  /\ rsp = <<>>
  /\ first = "none"
  /\ expired = "no"
  /\ raced = FALSE
  /\ ret = [k \in Attempts |-> <<>>]
  /\ logged = {}
  /\ rbw = 0

\* The SQL texts the caller executes.
SQLs == {"s1", "s2"}

\* The nil response map, and the payload of the response to request id.
NoRes == <<>>
Payload(id) == <<id>>

\* "... Statement handle not found ..."
HandleErr == NewErr("nohandle")

IdleFrame == [pc |-> "idle", sql |-> "s1", hit |-> FALSE, ps |-> 0, ps2 |-> 0,
              res |-> NoRes, err |-> NoErr, err2 |-> NoErr]

InitSession ==
  /\ prepStmtCache = [q \in SQLs |-> 0]
  /\ x = IdleFrame
  /\ srvOpen = {}
  /\ nextSth = 0
  /\ calls = 0
  /\ xlog = <<>>
  /\ xret = <<>>

\* The callers that close the stream of an export.
Closers == 1..MaxClosers

IdleClose == [pc |-> "idle", orig |-> FALSE, sig |-> 0]

\* SuppressError is false unless the caller sets it.
InitClose ==
  /\ SuppressError = FALSE
  /\ stop = 0
  /\ cl = [c \in Closers |-> IdleClose]

IdleFetch == [pc |-> "idle", numRows |-> 0, rsh |-> 0, i |-> 0,
              pend |-> <<>>]

InitFetch ==
  /\ fc = IdleFetch
  /\ ch = <<>>
  /\ chClosed = FALSE
  /\ got = <<>>
  /\ flog = <<>>

\* Connect has opened the socket.
InitSocket ==
  /\ wsOpen = TRUE
  /\ todo = {}

Init ==
  /\ job \in {"import", "export", "execute", "close", "fetch"}
  /\ Timeout \in (IF job \in {"execute", "fetch"} THEN {0} ELSE 0..MaxTimeout)
  /\ CachePrepStmts \in (IF job \in {"execute", "fetch"} THEN BOOLEAN
                         ELSE {FALSE})
  /\ dataLeft = IF job = "import" THEN MaxChunks ELSE 0
  /\ wire = <<>>
  /\ InitBulk
  /\ InitSession
  /\ InitClose
  /\ InitFetch
  /\ InitSocket

(* -------------------- the race of one bulk attempt -------------------- *)

\* The attempt whose frame the tasks of attempt k write to is in progress.
\* A task that outlives its attempt still runs, but nobody reads what it
\* stores in the frame of the returned call, and that is not tracked.
Live(k) == k = att /\ ret[k] = <<>>

\* initProxy, NewProxy succeeded: the endpoint of the attempt runs.
NewProxy ==
  /\ proxyUp' = [proxyUp EXCEPT ![att] = TRUE]
  /\ pc' = "send"
  /\ UNCHANGED <<wire, aSt, bSt, moved, frameVars, histVars>>

\* initProxy returning the error of asyncSend with the endpoint left
\* running.
SendFailed_noShutdown ==
  /\ xfer' = <<>> /\ rsp' = <<>> /\ first' = "none"
  /\ expired' = "no" /\ raced' = FALSE
  /\ UNCHANGED <<wire, taskVars, frameVars>>

\* initProxy, asyncSend failed: proxy.Shutdown(), nothing is on the wire,
\* no task is started.
SendFailed ==
  /\ proxyUp' = [proxyUp EXCEPT ![att] = FALSE]
  /\ xfer' = <<>> /\ rsp' = <<>> /\ first' = "none"
  /\ expired' = "no" /\ raced' = FALSE
  /\ UNCHANGED <<wire, aSt, bSt, moved, frameVars>>

\* initProxy succeeded: the endpoint runs and the command is on the wire
\* (asyncSend); the caller makes dataErr and respErr and starts the
\* transfer task and the response task.
StartRace ==
  /\ proxyUp' = [proxyUp EXCEPT ![att] = TRUE]
  /\ wire' = WriteJSON(wire, Request("execute", 0, att))
  /\ aSt' = [aSt EXCEPT ![att] = "run"]
  /\ bSt' = [bSt EXCEPT ![att] = "run"]
  /\ err' = NoErr /\ bw' = 0 /\ dataErr' = <<>> /\ respErr' = <<>>
  /\ clock' = 0
  /\ xfer' = <<>> /\ rsp' = <<>> /\ first' = "none"
  /\ expired' = "no" /\ raced' = FALSE
  /\ pc' = "enter"
  /\ UNCHANGED moved

\* initProxy, NewProxy failed: no endpoint runs, nothing is on the wire,
\* no task is started.
NoRace ==
  /\ xfer' = <<>> /\ rsp' = <<>> /\ first' = "none"
  /\ expired' = "no" /\ raced' = FALSE
  /\ UNCHANGED <<wire, taskVars, frameVars>>

\* The endpoint of attempt k, which is in progress, was forced to shut
\* down by the stop signal.
Stopped(k) == job = "close" /\ Live(k) /\ aSt[k] # "none" /\ ~proxyUp[k]

\* What a transfer that returns now can return: success once the data is
\* through and the endpoint still runs, an error at any time.  On the
\* healthy server of a closed export the transfer succeeds unless the
\* endpoint was forced to shut down.
XferOutcomes(k) ==
  IF job = "close"
    THEN (IF Stopped(k) THEN {NoErr, StopErr} ELSE {NoErr})
    ELSE {RetryErr, OtherErr} \cup (IF proxyUp[k] /\ (job = "import" => dataLeft = 0)
                          THEN {NoErr} ELSE {})

\* What the response to the command of attempt k can be.
ResponseOutcomes(k) ==
  IF job = "close"
    THEN (IF Stopped(k) THEN {NoErr, StopErr} ELSE {NoErr})
    ELSE RespOutcomes

\* The caller is past its select: a store of the transfer task changes
\* what the caller reads from then on.
PastSelect == pc \in {"check", "wrap", "return", "readBw", "readErr"}

\* dataErr <- err: the task sends what err holds by now.  A caller blocked
\* in the select is handed the value: its select is decided.
TransferSend(k) ==
  /\ aSt[k] = "ret"
  /\ dataErr' = IF Live(k) THEN <<err>> ELSE dataErr
  /\ pc' = IF Live(k) /\ pc = "select" THEN "gotData" ELSE pc
  /\ aSt' = [aSt EXCEPT ![k] = "sent"]
  /\ UNCHANGED <<wire, proxyUp, bSt, moved, err, bw, respErr, clock,
                 histVars, loopVars>>

\* The response task: _, err := resp(); respErr <- err.  resp is the await
\* function asyncSend returned: it reads the next response from the
\* websocket, whichever request that response answers.
AwaitResponse(k) ==
  /\ bSt[k] = "run" /\ wire # <<>>
  /\ wire' = Tail(wire)
  /\ IF Live(k)
       THEN /\ \E e \in ResponseOutcomes(k) :
                 respErr' = <<e>> /\ rsp' = <<e>>
            /\ first' = IF first = "none" THEN "resp" ELSE first
            /\ pc' = IF pc = "select" THEN "gotResp" ELSE pc
       ELSE UNCHANGED <<respErr, rsp, first, pc>>
  /\ bSt' = [bSt EXCEPT ![k] = "done"]
  /\ UNCHANGED <<proxyUp, aSt, moved, err, bw, dataErr, clock, xfer,
                 expired, raced, loopVars>>

\* The caller enters the select over dataErr, respErr and
\* time.After(Timeout seconds): a case that is ready is taken (any of
\* them when several are); with none ready the caller blocks, and the
\* first send or the timer decides the select.
SelectEnter ==
  /\ pc = "enter"
  /\ clock' = 0
  /\ \/ dataErr # <<>> /\ pc' = "gotData"
     \/ respErr # <<>> /\ pc' = "gotResp"
     \/ Timeout = 0 /\ (dataErr # <<>> \/ respErr # <<>>) /\ pc' = "gotTimer"
     \/ dataErr = <<>> /\ respErr = <<>> /\ pc' = "select"
  /\ UNCHANGED <<wire, taskVars, err, bw, dataErr, respErr, histVars,
                 loopVars>>

\* The timer of a zero Timeout fires while the caller is blocked (a timer
\* of Timeout > 0 fires in Tick).
TimerFire ==
  /\ pc = "select" /\ clock >= Timeout
  /\ pc' = "gotTimer"
  /\ UNCHANGED <<wire, taskVars, frameVars, histVars, loopVars>>

\* case err = <-dataErr: if err == nil { err = <-respErr }
SelectData ==
  /\ pc = "gotData"
  /\ err' = dataErr[1]
  /\ dataErr' = <<>>
  /\ pc' = IF dataErr[1] = NoErr THEN "waitResp" ELSE "check"
  /\ UNCHANGED <<respErr, raced>>

\* case err = <-respErr: if err == nil { err = <-dataErr }
SelectResp ==
  /\ pc = "gotResp"
  /\ err' = respErr[1]
  /\ respErr' = <<>>
  /\ pc' = IF respErr[1] = NoErr THEN "waitData" ELSE "check"
  /\ raced' = (raced \/ (aSt[att] = "ret" /\ err # respErr[1]))
  /\ UNCHANGED dataErr

\* case <-time.After(time.Duration(c.Conf.Timeout) * time.Second)
SelectTimeout ==
  /\ pc = "gotTimer"
  /\ err' = TimeoutErr
  /\ pc' = "check"
  /\ UNCHANGED <<dataErr, respErr, raced>>

\* err = <-respErr, after dataErr delivered nil
WaitResp ==
  /\ pc = "waitResp" /\ respErr # <<>>
  /\ err' = respErr[1]
  /\ respErr' = <<>>
  /\ pc' = "check"
  /\ UNCHANGED <<dataErr, raced>>

\* err = <-dataErr, after respErr delivered nil
WaitData ==
  /\ pc = "waitData" /\ dataErr # <<>>
  /\ err' = dataErr[1]
  /\ dataErr' = <<>>
  /\ pc' = "check"
  /\ UNCHANGED <<respErr, raced>>

Race ==
  /\ SelectData \/ SelectResp \/ SelectTimeout \/ WaitResp \/ WaitData
  /\ UNCHANGED <<wire, taskVars, bw, clock, xfer, rsp, first, expired,
                 loopVars>>

\* The attempt returns: its deferred Shutdown stops the endpoint, and its
\* frame (err, dataErr, respErr) is left to the tasks that still hold it;
\* a transfer task that was about to send on dataErr sends to a channel
\* nobody receives from.
EndRace ==
  /\ proxyUp' = [proxyUp EXCEPT ![att] = FALSE]
  /\ aSt' = [aSt EXCEPT ![att] = IF @ \in {"bw", "ret"} THEN "sent" ELSE @]
  /\ err' = NoErr /\ bw' = 0 /\ dataErr' = <<>> /\ respErr' = <<>>
  /\ UNCHANGED <<wire, bSt, moved, clock, histVars>>

\* A second passes while the caller is in the race.  The timer that fires
\* decides the select of a caller blocked in it.
Tick ==
  /\ pc \in {"select", "gotData", "gotResp", "waitResp", "waitData"}
  /\ clock < Timeout
  /\ clock' = clock + 1
  /\ pc' = IF pc = "select" /\ clock + 1 = Timeout THEN "gotTimer" ELSE pc
  /\ expired' = IF /\ clock + 1 = Timeout
                     /\ ~(xfer # <<>> /\ rsp # <<>>)
                     /\ ~(xfer # <<>> /\ xfer[1] # NoErr)
                     /\ ~(rsp # <<>> /\ rsp[1] # NoErr)
                  THEN (IF pc = "select" THEN "select" ELSE "wait")
                  ELSE "no"
  /\ UNCHANGED <<envVars, wire, taskVars, err, bw, dataErr, respErr, xfer,
                 rsp, first, raced, callerVars, loopVars, sessVars>>

(* ------------------- StreamExecute (bulk import) ---------------------- *)

\* StreamExecute is called with a non-nil data channel.
StreamExecute ==
  /\ job = "import" /\ pc = "idle"
  /\ pc' = "init" /\ att' = 1
  /\ UNCHANGED <<envVars, wire, taskVars, frameVars, histVars, callerVars,
                 ret, logged, rbw, sessVars>>

\* ImportRetries with the test of bytesWritten the wrong way round.
ImportRetries_inverted(bytesWritten, e) ==
  retryableError(e) /\ bytesWritten # 0

\* if retryableError(err) { if bytesWritten == 0 { continue } ... }
ImportRetries(bytesWritten, e) == retryableError(e) /\ bytesWritten = 0

\* The message c.error(err) is given: the text of err.
ErrorText(e) == IF e.ctx = "import" THEN "Unable to bulk import data: " \o e.sig
                ELSE e.sig

\* What the retry loops keep of an attempt that returned.
Returned(bytesWritten, e) ==
  <<[bw |-> bytesWritten, err |-> e, raced |-> raced]>>

\* The body of StreamExecute's loop after streamExecuteNoRetry returned
\* (bytesWritten, e) for attempt att.
StreamExecuteLoop(bytesWritten, e) ==
  /\ ret' = [ret EXCEPT ![att] = Returned(bytesWritten, e)]
  /\ rbw' = 0
  /\ IF e # NoErr
       THEN IF ImportRetries(bytesWritten, e)
              THEN /\ logged' = logged \cup {<<"Retrying...", att>>}
                   /\ IF att < StreamExecuteAttempts
                        THEN pc' = "init" /\ att' = att + 1 /\ result' = result
                        ELSE pc' = "done" /\ att' = att /\ result' = <<NoErr>>
              ELSE \* c.error("Data already sent..."), c.error(err), return err
                   /\ logged' = logged \cup
                        (IF retryableError(e)
                           THEN {<<"Data already sent can't retry...", att>>}
                           ELSE {})
                        \cup {<<ErrorText(e), att>>}
                   /\ pc' = "done" /\ att' = att /\ result' = <<e>>
       ELSE /\ logged' = logged
            /\ pc' = "done" /\ att' = att /\ result' = <<NoErr>>

\* streamExecuteNoRetry, initProxy: NewProxy starts the endpoint, or
\* fails: return 0, err.
NR_initProxy ==
  /\ job = "import" /\ pc = "init"
  /\ \/ /\ NewProxy
        /\ UNCHANGED <<result, loopVars>>
     \/ /\ StreamExecuteLoop(0, ProxyErr)
        /\ NoRace
  /\ UNCHANGED <<envVars, dataLeft, Data, dataClosed, rowsError, bytesRead,
                 sessVars>>

\* streamExecuteNoRetry up to its select: initProxy's asyncSend, then the
\* two tasks; or asyncSend failed, the endpoint is shut down: return 0, err.
NR_initProxySend ==
  /\ job = "import" /\ pc = "send"
  /\ \/ /\ StartRace
        /\ UNCHANGED <<result, loopVars>>
     \/ /\ StreamExecuteLoop(0, SendErr)
        /\ SendFailed
  /\ UNCHANGED <<envVars, dataLeft, Data, dataClosed, rowsError, bytesRead,
                 sessVars>>

\* The transfer task: proxy.Write(data) takes a chunk from the caller's
\* channel and writes it to the server.
NR_WriteChunk(k) ==
  /\ job = "import" /\ aSt[k] = "run" /\ proxyUp[k] /\ dataLeft > 0
  /\ dataLeft' = dataLeft - 1
  /\ moved' = [moved EXCEPT ![k] = @ + 1]
  /\ UNCHANGED <<envVars, wire, pc, proxyUp, aSt, bSt, frameVars, histVars,
                 Data, dataClosed, rowsError, bytesRead, result, loopVars,
                 sessVars>>

\* bytesWritten, err = proxy.Write(data): Write returns; the task holds
\* its two results and has stored neither yet.
NR_WriteReturn(k) ==
  /\ job = "import" /\ aSt[k] = "run"
  /\ IF Live(k)
       THEN /\ \E e \in XferOutcomes(k) : xfer' = <<e>>
            /\ first' = IF first = "none" THEN "data" ELSE first
            /\ aSt' = [aSt EXCEPT ![k] = "wrote"]
       ELSE /\ aSt' = [aSt EXCEPT ![k] = "sent"]
            /\ UNCHANGED <<xfer, first>>
  /\ UNCHANGED <<wire, pc, proxyUp, bSt, moved, frameVars, rsp, expired,
                 raced, loopVars>>
  /\ UNCHANGED <<envVars, callerVars, sessVars>>

\* bytesWritten, err = proxy.Write(data): the task stores bytesWritten in
\* the caller's frame.
NR_WriteBytesWritten(k) ==
  /\ job = "import" /\ aSt[k] = "wrote"
  /\ IF Live(k)
       THEN /\ bw' = moved[k]
            /\ raced' = (raced \/ PastSelect)
            /\ aSt' = [aSt EXCEPT ![k] = "bw"]
       ELSE /\ aSt' = [aSt EXCEPT ![k] = "sent"]
            /\ UNCHANGED <<bw, raced>>
  /\ UNCHANGED <<wire, pc, proxyUp, bSt, moved, err, dataErr, respErr, clock,
                 xfer, rsp, first, expired, loopVars>>
  /\ UNCHANGED <<envVars, callerVars, sessVars>>

\* bytesWritten, err = proxy.Write(data): the task stores err in the
\* caller's frame, whatever the caller has stored there meanwhile.
NR_WriteStore(k) ==
  /\ job = "import" /\ aSt[k] = "bw"
  /\ IF Live(k)
       THEN /\ err' = xfer[1]
            /\ raced' = (raced \/ PastSelect)
            /\ aSt' = [aSt EXCEPT ![k] = "ret"]
       ELSE /\ aSt' = [aSt EXCEPT ![k] = "sent"]
            /\ UNCHANGED <<err, raced>>
  /\ UNCHANGED <<wire, pc, proxyUp, bSt, moved, bw, dataErr, respErr, clock,
                 xfer, rsp, first, expired, loopVars>>
  /\ UNCHANGED <<envVars, callerVars, sessVars>>

NR_WriteSend(k) ==
  /\ job = "import"
  /\ TransferSend(k)
  /\ UNCHANGED <<envVars, callerVars, sessVars>>

NR_Response(k) ==
  /\ job = "import"
  /\ AwaitResponse(k)
  /\ UNCHANGED <<envVars, callerVars, sessVars>>

NR_SelectEnter ==
  /\ job = "import"
  /\ SelectEnter
  /\ UNCHANGED <<envVars, callerVars, sessVars>>

NR_TimerFire ==
  /\ job = "import"
  /\ TimerFire
  /\ UNCHANGED <<envVars, callerVars, sessVars>>

NR_Select ==
  /\ job = "import"
  /\ Race
  /\ UNCHANGED <<envVars, callerVars, sessVars>>

\* if err != nil {: the test.
NR_Check ==
  /\ job = "import" /\ pc = "check"
  /\ pc' = IF err # NoErr THEN "wrap" ELSE "return"
  /\ UNCHANGED <<envVars, wire, taskVars, frameVars, histVars, callerVars,
                 loopVars, sessVars>>

\* err = fmt.Errorf("Unable to bulk import data: %s\n%s", origSQL, err),
\* of err as it is by now.
NR_Wrap ==
  /\ job = "import" /\ pc = "wrap"
  /\ err' = WrapImport(err)
  /\ pc' = "return"
  /\ UNCHANGED <<envVars, wire, taskVars, bw, dataErr, respErr, clock,
                 histVars, callerVars, loopVars, sessVars>>

\* return bytesWritten, err: the deferred proxy.Shutdown() runs.
NR_Shutdown ==
  /\ job = "import" /\ pc = "return"
  /\ proxyUp' = [proxyUp EXCEPT ![att] = FALSE]
  /\ pc' = "readBw"
  /\ UNCHANGED <<envVars, wire, aSt, bSt, moved, frameVars, histVars,
                 callerVars, loopVars, sessVars>>

\* The named result bytesWritten, as it is by now, is read for the caller.
NR_ReadBytesWritten ==
  /\ job = "import" /\ pc = "readBw"
  /\ rbw' = bw
  /\ pc' = "readErr"
  /\ UNCHANGED <<envVars, wire, taskVars, frameVars, histVars, callerVars,
                 att, ret, logged, sessVars>>

\* The named result err, as it is by now, is read for the caller; both go to
\* StreamExecute.
NR_Return ==
  /\ job = "import" /\ pc = "readErr"
  /\ EndRace
  /\ StreamExecuteLoop(rbw, err)
  /\ UNCHANGED <<envVars, dataLeft, Data, dataClosed, rowsError, bytesRead,
                 sessVars>>

NextImport ==
  \/ StreamExecute
  \/ NR_initProxy
  \/ NR_initProxySend
  \/ \E k \in Attempts : NR_WriteChunk(k)
  \/ \E k \in Attempts : NR_WriteReturn(k)
  \/ \E k \in Attempts : NR_WriteBytesWritten(k)
  \/ \E k \in Attempts : NR_WriteStore(k)
  \/ \E k \in Attempts : NR_WriteSend(k)
  \/ \E k \in Attempts : NR_Response(k)
  \/ NR_SelectEnter
  \/ NR_TimerFire
  \/ NR_Select
  \/ NR_Check
  \/ NR_Wrap
  \/ NR_Shutdown
  \/ NR_ReadBytesWritten
  \/ NR_Return
  \/ Tick

InitImport == Init /\ job = "import"

SpecImport == InitImport /\ [][NextImport]_vars

(* -------------------- StreamQuery (bulk export) ----------------------- *)

\* The scenarios in which the caller runs an export.
Exporting == job \in {"export", "close"}

\* StreamQuery makes the Rows, starts the background task and returns.
StreamQuery ==
  /\ Exporting /\ pc = "idle"
  /\ pc' = "init" /\ att' = 1
  /\ UNCHANGED <<envVars, wire, taskVars, frameVars, histVars, callerVars,
                 ret, logged, rbw, sessVars>>

\* StreamQueryLoop retrying after any error.
StreamQueryLoop_anyError(e) ==
  /\ ret' = [ret EXCEPT ![att] = Returned(0, e)]
  /\ UNCHANGED rbw
  /\ IF e # NoErr
       THEN /\ rowsError' = NoErr
            /\ logged' = logged \cup {<<"Retrying...", att>>}
            /\ IF att < StreamQueryAttempts
                 THEN pc' = "init" /\ att' = att + 1 /\ dataClosed' = dataClosed
                 ELSE pc' = "done" /\ att' = att /\ dataClosed' = TRUE
       ELSE /\ rowsError' = e
            /\ logged' = logged
            /\ pc' = "done" /\ att' = att /\ dataClosed' = TRUE

\* The body of the background task's loop after streamQuery returned e for
\* attempt att (i = att - 1), and the deferred close(r.Data) when the task
\* ends.
StreamQueryLoop(e) ==
  /\ ret' = [ret EXCEPT ![att] = Returned(0, e)]
  /\ UNCHANGED rbw
  /\ IF retryableError(e)
       THEN /\ rowsError' = NoErr
            /\ logged' = logged \cup {<<"Retrying...", att>>}
            /\ IF att < StreamQueryAttempts
                 THEN pc' = "init" /\ att' = att + 1 /\ dataClosed' = dataClosed
                 ELSE pc' = "done" /\ att' = att /\ dataClosed' = TRUE
       ELSE /\ rowsError' = e
            /\ logged' = logged
            /\ pc' = "done" /\ att' = att /\ dataClosed' = TRUE

\* streamQuery, initProxy: NewProxy starts the endpoint, or fails: return
\* err.
SQ_initProxy ==
  /\ Exporting /\ pc = "init"
  /\ \/ /\ NewProxy
        /\ UNCHANGED <<dataClosed, rowsError, loopVars>>
     \/ /\ StreamQueryLoop(ProxyErr)
        /\ NoRace
  /\ UNCHANGED <<envVars, dataLeft, Data, bytesRead, result, sessVars>>

\* streamQuery up to its select: initProxy's asyncSend, r.proxy = proxy,
\* the two tasks; or asyncSend failed, the endpoint is shut down: return
\* err.
SQ_initProxySend ==
  /\ Exporting /\ pc = "send"
  /\ \/ /\ StartRace
        /\ UNCHANGED <<dataClosed, rowsError, loopVars>>
     \/ /\ StreamQueryLoop(SendErr)
        /\ SendFailed
  /\ UNCHANGED <<envVars, dataLeft, Data, bytesRead, result, sessVars>>

\* The transfer task: r.proxy.Read pushes a chunk it received from the
\* server onto r.Data.
SQ_ReadChunk(k) ==
  /\ Exporting /\ aSt[k] = "run" /\ proxyUp[k]
  /\ moved[k] < MaxChunks
  /\ Len(Data) < DataChanCap /\ ~dataClosed
  /\ Data' = Append(Data, k)
  /\ moved' = [moved EXCEPT ![k] = @ + 1]
  /\ UNCHANGED <<envVars, wire, pc, proxyUp, aSt, bSt, frameVars, histVars,
                 dataLeft, dataClosed, rowsError, bytesRead, result,
                 loopVars, sessVars>>

\* r.BytesRead, err = r.proxy.Read(r.Data, r.stop): Read returns; the task
\* holds its two results and has stored neither yet.
SQ_ReadReturn(k) ==
  /\ Exporting /\ aSt[k] = "run"
  /\ aSt' = [aSt EXCEPT ![k] = "wrote"]
  /\ IF Live(k)
       THEN /\ \E e \in XferOutcomes(k) : xfer' = <<e>>
            /\ first' = IF first = "none" THEN "data" ELSE first
       ELSE UNCHANGED <<xfer, first>>
  /\ UNCHANGED <<wire, pc, proxyUp, bSt, moved, frameVars, rsp, expired,
                 raced, loopVars>>
  /\ UNCHANGED <<envVars, callerVars, sessVars>>

\* r.BytesRead, err = r.proxy.Read(r.Data, r.stop): the task stores
\* r.BytesRead, a field of the Rows every attempt shares.
SQ_ReadBytesRead(k) ==
  /\ Exporting /\ aSt[k] = "wrote"
  /\ bytesRead' = moved[k]
  /\ aSt' = [aSt EXCEPT ![k] = IF Live(k) THEN "bw" ELSE "sent"]
  /\ UNCHANGED <<wire, pc, proxyUp, bSt, moved, frameVars, histVars,
                 loopVars>>
  /\ UNCHANGED <<envVars, dataLeft, Data, dataClosed, rowsError, result,
                 sessVars>>

\* r.BytesRead, err = r.proxy.Read(r.Data, r.stop): the task stores err in
\* the caller's frame, whatever the caller has stored there meanwhile.
SQ_ReadStore(k) ==
  /\ Exporting /\ aSt[k] = "bw"
  /\ IF Live(k)
       THEN /\ err' = xfer[1]
            /\ raced' = (raced \/ PastSelect)
            /\ aSt' = [aSt EXCEPT ![k] = "ret"]
       ELSE /\ aSt' = [aSt EXCEPT ![k] = "sent"]
            /\ UNCHANGED <<err, raced>>
  /\ UNCHANGED <<wire, pc, proxyUp, bSt, moved, bw, dataErr, respErr, clock,
                 xfer, rsp, first, expired, loopVars>>
  /\ UNCHANGED <<envVars, callerVars, sessVars>>

SQ_ReadSend(k) ==
  /\ Exporting
  /\ TransferSend(k)
  /\ UNCHANGED <<envVars, callerVars, sessVars>>

SQ_Response(k) ==
  /\ Exporting
  /\ AwaitResponse(k)
  /\ UNCHANGED <<envVars, callerVars, sessVars>>

SQ_SelectEnter ==
  /\ Exporting
  /\ SelectEnter
  /\ UNCHANGED <<envVars, callerVars, sessVars>>

SQ_TimerFire ==
  /\ Exporting
  /\ TimerFire
  /\ UNCHANGED <<envVars, callerVars, sessVars>>

SQ_Select ==
  /\ Exporting
  /\ Race
  /\ UNCHANGED <<envVars, callerVars, sessVars>>

\* if err != nil { r.conn.error(...) }; return err, and the deferred
\* r.proxy.Shutdown().
SQ_Return ==
  /\ Exporting /\ pc = "check"
  /\ EndRace
  /\ StreamQueryLoop(err)
  /\ UNCHANGED <<envVars, dataLeft, Data, bytesRead, result, sessVars>>

\* The consumer of r.Data (BulkQuery's range loop, or the caller of
\* StreamQuery) receives a chunk.
Consume ==
  /\ Exporting /\ Data # <<>>
  /\ Data' = Tail(Data)
  /\ UNCHANGED <<envVars, wire, pc, taskVars, frameVars, histVars, dataLeft,
                 dataClosed, rowsError, bytesRead, result, loopVars,
                 sessVars>>

\* BulkQuery's return value once the range over rows.Data has ended.
BulkQueryResult ==
  IF rowsError # NoErr THEN WrapBulkQuery(rowsError) ELSE NoErr

NextExport ==
  \/ StreamQuery
  \/ SQ_initProxy
  \/ SQ_initProxySend
  \/ \E k \in Attempts : SQ_ReadChunk(k)
  \/ \E k \in Attempts : SQ_ReadReturn(k)
  \/ \E k \in Attempts : SQ_ReadBytesRead(k)
  \/ \E k \in Attempts : SQ_ReadStore(k)
  \/ \E k \in Attempts : SQ_ReadSend(k)
  \/ \E k \in Attempts : SQ_Response(k)
  \/ SQ_SelectEnter
  \/ SQ_TimerFire
  \/ SQ_Select
  \/ SQ_Return
  \/ Consume
  \/ Tick

InitExport == Init /\ job = "export"

SpecExport == InitExport /\ [][NextExport]_vars

(* --------------------- bulk jobs of both kinds ------------------------ *)

\* One bulk job, an import or an export.
NextTransfer == NextImport \/ NextExport

InitTransfer == Init /\ job \in {"import", "export"}

SpecTransfer == InitTransfer /\ [][NextTransfer]_vars

(* --------------------------- Rows.Close ------------------------------- *)

\* r.proxy: the endpoint of the last attempt whose initProxy succeeded
\* (0: nil, no attempt has set it yet).
RowsProxy ==
  LET set == {k \in Attempts : aSt[k] # "none"}
  IN  IF set = {} THEN 0 ELSE CHOOSE k \in set : \A j \in set : j <= k

\* r.proxy.IsRunning()
IsRunning == RowsProxy # 0 /\ proxyUp[RowsProxy]

closeUnchanged ==
  UNCHANGED <<confVars, fetchVars, discVars, wire, bulkVars, sessVars>>

\* A Close call ran into a nil r.proxy: the process has ended with a
\* panic, and no Close call takes another step.
Panicked == \E c \in Closers : cl[c].pc = "panic"

\* origCfg := r.conn.Conf.SuppressError, at any time after StreamQuery has
\* returned the Rows.
Close_Begin(c) ==
  /\ job = "close" /\ cl[c].pc = "idle" /\ pc # "idle" /\ ~Panicked
  /\ cl' = [cl EXCEPT ![c] = [pc |-> "begun", orig |-> SuppressError,
                              sig |-> 0]]
  /\ UNCHANGED <<SuppressError, stop>>
  /\ closeUnchanged

\* if r.proxy.IsRunning(): on the endpoint r.proxy holds at this moment.
\* While r.proxy is nil (no initProxy has succeeded yet) the call is made on
\* a nil *Proxy: it panics, or answers false.
Close_Test(c) ==
  /\ job = "close" /\ cl[c].pc = "begun" /\ ~Panicked
  /\ IF RowsProxy = 0
       THEN \E o \in {"panic", "wait"} : cl' = [cl EXCEPT ![c].pc = o]
       ELSE cl' = [cl EXCEPT ![c].pc = IF IsRunning THEN "store" ELSE "wait"]
  /\ UNCHANGED <<SuppressError, stop>>
  /\ closeUnchanged

\* r.conn.Conf.SuppressError = true
Close_Store(c) ==
  /\ job = "close" /\ cl[c].pc = "store" /\ ~Panicked
  /\ SuppressError' = TRUE
  /\ cl' = [cl EXCEPT ![c].pc = "send"]
  /\ UNCHANGED stop
  /\ closeUnchanged

\* select { case r.stop <- true: default: }: the send does nothing when
\* the channel is full.  sig is the endpoint r.proxy holds now.
Close_Send(c) ==
  /\ job = "close" /\ cl[c].pc = "send" /\ ~Panicked
  /\ stop' = 1
  /\ cl' = [cl EXCEPT ![c].pc = "wait", ![c].sig = RowsProxy]
  /\ UNCHANGED SuppressError
  /\ closeUnchanged

\* r.wg.Wait() returns once the background task has ended; then
\* r.conn.Conf.SuppressError = origCfg.
Close_Return(c) ==
  /\ job = "close" /\ cl[c].pc = "wait" /\ ~Panicked
  /\ pc = "done" /\ dataClosed
  /\ SuppressError' = cl[c].orig
  /\ cl' = [cl EXCEPT ![c].pc = "closed"]
  /\ UNCHANGED stop
  /\ closeUnchanged

\* Proxy.Read receives the stop signal: the endpoint shuts down.
SQ_ReadStop(k) ==
  /\ job = "close" /\ aSt[k] = "run" /\ proxyUp[k] /\ stop = 1
  /\ stop' = 0
  /\ proxyUp' = [proxyUp EXCEPT ![k] = FALSE]
  /\ UNCHANGED <<confVars, SuppressError, cl, fetchVars, discVars, wire, pc,
                 aSt, bSt, moved, frameVars, histVars, callerVars, loopVars,
                 sessVars>>

NextClose ==
  \/ NextExport
  \/ \E c \in Closers : Close_Begin(c)
  \/ \E c \in Closers : Close_Test(c)
  \/ \E c \in Closers : Close_Store(c)
  \/ \E c \in Closers : Close_Send(c)
  \/ \E c \in Closers : Close_Return(c)
  \/ \E k \in Attempts : SQ_ReadStop(k)

InitCloseJob == Init /\ job = "close"

SpecClose == InitCloseJob /\ [][NextClose]_vars

(* ------------------------------ Execute ------------------------------- *)

\* The err variable of Execute's frame (x.err) is the one declared by
\* res, err := c.send(execReq); the recovery block declares its own ps and
\* err (ps, err := c.getPrepStmt(schema, sql)), here x.ps2 and x.err2.

execUnchanged == UNCHANGED <<envVars, bulkVars>>

\* Execute runs: called by the caller, or by FetchChan.
Executing == job \in {"execute", "fetch"}

\* asyncSend: c.ws.WriteJSON(request)
Written(cmd, sth) ==
  /\ wire' = WriteJSON(wire, Request(cmd, sth, Len(xlog) + 1))
  /\ xlog' = Append(xlog, [cmd |-> cmd, sth |-> sth, id |-> Len(xlog) + 1,
                           out |-> "pending"])

\* The await function: c.ws.ReadJSON(&response) returned a response with
\* outcome out.
Received(out) ==
  /\ wire # <<>>
  /\ wire' = Tail(wire)
  /\ xlog' = [xlog EXCEPT ![Len(xlog)].out = out]

\* What the await function returns for outcome out of the request it read.
ResOf(out) == IF out = "ok" THEN Payload(Head(wire).id) ELSE NoRes
ErrOf(out) == CASE out = "ok" -> NoErr
                [] out = "nohandle" -> HandleErr
                [] OTHER -> OtherErr

\* regexp.MustCompile("Statement handle not found").MatchString(err.Error())
handleNotFound(e) == e # NoErr /\ e.sig = "nohandle"

\* Return dropping the payload of the response.
Return_noPayload(res, e) ==
  /\ xret' = <<[res |-> NoRes, err |-> e]>>
  /\ x' = [x EXCEPT !.pc = "idle"]
  /\ calls' = calls + 1

\* Execute returns (res, e) to its caller.
Return(res, e) ==
  /\ xret' = <<[res |-> res, err |-> e]>>
  /\ x' = [x EXCEPT !.pc = "idle"]
  /\ calls' = calls + 1

\* The shapes of the bindings argument of Execute: absent (nil), an empty
\* list, a list whose first row is nil or empty, and rows of values.
BindShapes == {"absent", "empty", "nilRow", "emptyRow", "rows"}

\* binds == nil || len(binds) == 0 || binds[0] == nil || len(binds[0]) == 0
NoBinds(shape) == shape \in {"absent", "empty", "nilRow", "emptyRow"}

\* Execute(sql, binds...): the simple execute when there are no binds,
\* else getPrepStmt, which looks the statement up in the cache.
ExecuteCall(sql, binds) ==
  /\ x.pc = "idle" /\ calls < MaxCalls
  /\ xlog' = <<>> /\ xret' = <<>>
  /\ x' = [IdleFrame EXCEPT
             !.sql = sql,
             !.hit = binds /\ prepStmtCache[sql] # 0,
             !.ps = IF binds THEN prepStmtCache[sql] ELSE 0,
             !.pc = IF ~binds THEN "execute"
                    ELSE IF prepStmtCache[sql] # 0 THEN "execPrep"
                    ELSE "prepare"]
  /\ UNCHANGED <<wire, prepStmtCache, srvOpen, nextSth, calls>>

\* The caller calls Execute.
Execute(sql, binds) ==
  /\ job = "execute"
  /\ ExecuteCall(sql, binds)
  /\ execUnchanged

\* return c.send(req), the write: asyncSend fails or the request is out.
ExecuteSend ==
  /\ Executing /\ x.pc = "execute"
  /\ \/ /\ Written("execute", 0)
        /\ x' = [x EXCEPT !.pc = "executeWait"]
        /\ UNCHANGED <<xret, calls>>
     \/ /\ Return(NoRes, SendErr)
        /\ UNCHANGED <<wire, xlog>>
  /\ UNCHANGED <<prepStmtCache, srvOpen, nextSth>>
  /\ execUnchanged

\* return c.send(req), the read.
ExecuteReceive ==
  /\ Executing /\ x.pc = "executeWait"
  /\ \E out \in {"ok", "other"} :
       /\ Received(out)
       /\ Return(ResOf(out), ErrOf(out))
  /\ UNCHANGED <<prepStmtCache, srvOpen, nextSth>>
  /\ execUnchanged

\* getPrepStmt on a cache miss, the write of createPreparedStatement.  It
\* runs for the first lookup (pc "prepare") and for the one of the recovery
\* (pc "reprepare"); on failure Execute returns nil, err.
PrepareSend ==
  /\ Executing /\ x.pc \in {"prepare", "reprepare"}
  /\ \/ /\ Written("createPreparedStatement", 0)
        /\ x' = [x EXCEPT !.pc = IF x.pc = "prepare" THEN "prepareWait"
                                 ELSE "reprepareWait"]
        /\ UNCHANGED <<xret, calls>>
     \/ /\ Return(NoRes, SendErr)
        /\ UNCHANGED <<wire, xlog>>
  /\ UNCHANGED <<prepStmtCache, srvOpen, nextSth>>
  /\ execUnchanged

\* getPrepStmt, the response: the server opened a new handle, which goes
\* into the cache when caching is on; or it failed.
PrepareReceive ==
  /\ Executing /\ x.pc \in {"prepareWait", "reprepareWait"}
  /\ \/ /\ Received("ok")
        /\ nextSth' = nextSth + 1
        /\ srvOpen' = srvOpen \cup {nextSth + 1}
        /\ prepStmtCache' = IF CachePrepStmts
                              THEN [prepStmtCache EXCEPT ![x.sql] = nextSth + 1]
                              ELSE prepStmtCache
        /\ x' = IF x.pc = "prepareWait"
                  THEN [x EXCEPT !.ps = nextSth + 1, !.pc = "execPrep"]
                  ELSE [x EXCEPT !.ps2 = nextSth + 1, !.pc = "retry"]
        /\ UNCHANGED <<xret, calls>>
     \/ /\ Received("other")
        /\ Return(NoRes, OtherErr)
        /\ UNCHANGED <<prepStmtCache, srvOpen, nextSth>>
  /\ execUnchanged

\* res, err := c.send(execReq), the write, with StatementHandle ps.sth.
ExecPrepSend ==
  /\ Executing /\ x.pc = "execPrep"
  /\ \/ /\ Written("executePreparedStatement", x.ps)
        /\ x' = [x EXCEPT !.pc = "execPrepWait"]
     \/ /\ x' = [x EXCEPT !.res = NoRes, !.err = SendErr, !.pc = "close"]
        /\ UNCHANGED <<wire, xlog>>
  /\ UNCHANGED <<prepStmtCache, srvOpen, nextSth, xret, calls>>
  /\ execUnchanged

\* The server's answers to executePreparedStatement for handle sth.
ExecOutcomes(sth) == IF sth \in srvOpen THEN {"ok", "other"} ELSE {"nohandle"}

\* res, err := c.send(execReq), the read; on "Statement handle not found"
\* delete(c.prepStmtCache, sql) and prepare again.
ExecPrepReceive ==
  /\ Executing /\ x.pc = "execPrepWait"
  /\ \E out \in ExecOutcomes(Head(wire).sth) :
       /\ Received(out)
       /\ IF handleNotFound(ErrOf(out))
            THEN /\ prepStmtCache' = [prepStmtCache EXCEPT ![x.sql] = 0]
                 /\ x' = [x EXCEPT !.res = ResOf(out), !.err = ErrOf(out),
                                   !.pc = "reprepare"]
            ELSE /\ prepStmtCache' = prepStmtCache
                 /\ x' = [x EXCEPT !.res = ResOf(out), !.err = ErrOf(out),
                                   !.pc = "close"]
  /\ UNCHANGED <<srvOpen, nextSth, xret, calls>>
  /\ execUnchanged

\* execReq.StatementHandle = int(ps.sth); res, err = c.send(execReq), the
\* write: ps and err are the ones of the recovery block.
RetrySend ==
  /\ Executing /\ x.pc = "retry"
  /\ \/ /\ Written("executePreparedStatement", x.ps2)
        /\ x' = [x EXCEPT !.pc = "retryWait"]
     \/ /\ x' = [x EXCEPT !.res = NoRes, !.err2 = SendErr, !.pc = "close"]
        /\ UNCHANGED <<wire, xlog>>
  /\ UNCHANGED <<prepStmtCache, srvOpen, nextSth, xret, calls>>
  /\ execUnchanged

\* res, err = c.send(execReq), the read.
RetryReceive ==
  /\ Executing /\ x.pc = "retryWait"
  /\ \E out \in ExecOutcomes(Head(wire).sth) :
       /\ Received(out)
       /\ x' = [x EXCEPT !.res = ResOf(out), !.err2 = ErrOf(out),
                         !.pc = "close"]
  /\ UNCHANGED <<prepStmtCache, srvOpen, nextSth, xret, calls>>
  /\ execUnchanged

\* if !c.Conf.CachePrepStmts { c.closePrepStmt(ps.sth) }; return res, err
\* closePrepStmt, the write of closePreparedStatement.
CloseSend ==
  /\ Executing /\ x.pc = "close"
  /\ IF CachePrepStmts
       THEN /\ Return(x.res, x.err)
            /\ UNCHANGED <<wire, xlog>>
       ELSE \/ /\ Written("closePreparedStatement", x.ps)
               /\ x' = [x EXCEPT !.pc = "closeWait"]
               /\ UNCHANGED <<xret, calls>>
            \/ /\ Return(x.res, x.err)
               /\ UNCHANGED <<wire, xlog>>
  /\ UNCHANGED <<prepStmtCache, srvOpen, nextSth>>
  /\ execUnchanged

\* closePrepStmt, the response: the server has closed the handle (or did
\* not know it); then return res, err.
CloseReceive ==
  /\ Executing /\ x.pc = "closeWait"
  /\ srvOpen' = srvOpen \ {Head(wire).sth}
  /\ Received(IF Head(wire).sth \in srvOpen THEN "ok" ELSE "other")
  /\ Return(x.res, x.err)
  /\ UNCHANGED <<prepStmtCache, nextSth>>
  /\ execUnchanged

\* GetSessionAttr() is called; EnableAutoCommit(), DisableAutoCommit() or
\* SetTimeout(t) is called (each a setAttributes request).
SessionAttr(cmd) ==
  /\ job = "execute" /\ x.pc = "idle" /\ calls < MaxCalls
  /\ xlog' = <<>> /\ xret' = <<>>
  /\ x' = [IdleFrame EXCEPT !.pc = cmd]
  /\ UNCHANGED <<wire, prepStmtCache, srvOpen, nextSth, calls>>
  /\ execUnchanged

\* What the function that sent cmd returns of (res, e): GetSessionAttr
\* returns them, the others return nothing.
AttrReturn(cmd, res, e) ==
  /\ xret' = IF cmd = "getAttributes" THEN <<[res |-> res, err |-> e]>>
             ELSE <<>>
  /\ x' = [x EXCEPT !.pc = "idle"]
  /\ calls' = calls + 1

\* c.send(req) of the session attribute functions, the write.
AttrSend ==
  /\ job = "execute" /\ x.pc \in {"getAttributes", "setAttributes"}
  /\ \/ /\ Written(x.pc, 0)
        /\ x' = [x EXCEPT !.pc = IF x.pc = "getAttributes"
                                   THEN "getAttributesWait"
                                   ELSE "setAttributesWait"]
        /\ UNCHANGED <<xret, calls>>
     \/ /\ AttrReturn(x.pc, NoRes, SendErr)
        /\ UNCHANGED <<wire, xlog>>
  /\ UNCHANGED <<prepStmtCache, srvOpen, nextSth>>
  /\ execUnchanged

\* c.send(req) of the session attribute functions, the read.
AttrReceive ==
  /\ job = "execute" /\ x.pc \in {"getAttributesWait", "setAttributesWait"}
  /\ \E out \in {"ok", "other"} :
       /\ Received(out)
       /\ AttrReturn(IF x.pc = "getAttributesWait" THEN "getAttributes"
                     ELSE "setAttributes", ResOf(out), ErrOf(out))
  /\ UNCHANGED <<prepStmtCache, srvOpen, nextSth>>
  /\ execUnchanged

\* The server invalidates a statement handle on its own.
ServerEvict ==
  /\ Executing
  /\ \E h \in srvOpen : srvOpen' = srvOpen \ {h}
  /\ UNCHANGED <<wire, prepStmtCache, x, nextSth, calls, xlog, xret>>
  /\ execUnchanged

NextExecute ==
  \/ \E sql \in SQLs, shape \in BindShapes : Execute(sql, ~NoBinds(shape))
  \/ \E cmd \in {"getAttributes", "setAttributes"} : SessionAttr(cmd)
  \/ AttrSend
  \/ AttrReceive
  \/ ExecuteSend
  \/ ExecuteReceive
  \/ PrepareSend
  \/ PrepareReceive
  \/ ExecPrepSend
  \/ ExecPrepReceive
  \/ RetrySend
  \/ RetryReceive
  \/ CloseSend
  \/ CloseReceive
  \/ ServerEvict

InitExecute == Init /\ job = "execute"

SpecExecute == InitExecute /\ [][NextExecute]_vars


(* ----------------------------- FetchChan ------------------------------ *)

fetchUnchanged == UNCHANGED <<confVars, closeVars, discVars, bulkVars, sessVars>>

\* The cell of row r in column c of the result set.
Cell(r, c) == <<r, c>>

\* The "data" of a response: column-major, the n rows after row start.
PageData(start, n) ==
  [c \in 1..NumCols |-> [j \in 1..n |-> Cell(start + j, c)]]

\* The rows of column-major data, in row order.
Transpose(data) ==
  [j \in 1..Len(data[1]) |-> [c \in 1..Len(data) |-> data[c][j]]]

\* A request the producer made: "unsent" when WriteJSON failed, "pending"
\* until ReadJSON returned its response; rows is the numRows of a fetch
\* response.
Made(cmd, start, out) ==
  Append(flog, [cmd |-> cmd, start |-> start, out |-> out, rows |-> 0])
Answered(out, rows) ==
  [flog EXCEPT ![Len(flog)].out = out, ![Len(flog)].rows = rows]

\* The binds FetchChan hands to Execute, [][]interface{}{binds}: one row
\* that is nil (no binds given), empty, or holds values.
FetchBindShapes == {"nilRow", "emptyRow", "rows"}

\* response, err := c.Execute(sql, [][]interface{}{binds}, schema): the
\* call; Execute then runs as for any caller.
FetchChan(sql, shape) ==
  /\ job = "fetch" /\ fc.pc = "idle"
  /\ ExecuteCall(sql, ~NoBinds(shape))
  /\ fc' = [fc EXCEPT !.pc = "execute"]
  /\ UNCHANGED <<ch, chClosed, got, flog>>
  /\ UNCHANGED <<confVars, closeVars, discVars, bulkVars>>

\* Execute has returned: an error, numResults # 1 or no resultSet (all
\* three: return nil, err), or a result set of numRows rows with or
\* without a resultSetHandle; then ch is made, the producer task is
\* started and ch is returned.
FC_ExecuteReturn ==
  /\ job = "fetch" /\ fc.pc = "execute" /\ x.pc = "idle" /\ xret # <<>>
  /\ IF xret[1].err # NoErr
       THEN fc' = [fc EXCEPT !.pc = "failed"]
       ELSE \/ fc' = [fc EXCEPT !.pc = "failed"]
            \/ \E n \in 0..MaxRows, h \in {0, 1} :
                 fc' = [pc |-> "producer", numRows |-> n, rsh |-> h, i |-> 0,
                        pend |-> <<>>]
  /\ UNCHANGED <<wire, ch, chClosed, got, flog>>
  /\ fetchUnchanged

\* The producer's branches taken in the wrong order: the handle first.
Branch_handleFirst(numRows, rsh) ==
  IF rsh # 0 THEN "loop" ELSE IF numRows = 0 THEN "close" ELSE "inline"

\* if rs["numRows"] == 0 { } else if rsh, ok := rs["resultSetHandle"]; ok
\* { ... } else { ... }
Branch(numRows, rsh) ==
  IF numRows = 0 THEN "close" ELSE IF rsh # 0 THEN "loop" ELSE "inline"

FC_Branch ==
  /\ job = "fetch" /\ fc.pc = "producer"
  /\ fc' = [fc EXCEPT !.pc = Branch(fc.numRows, fc.rsh)]
  /\ UNCHANGED <<wire, ch, chClosed, got, flog>>
  /\ fetchUnchanged

\* transposeToChan(ch, rs["data"].([]interface{})) is entered: a result
\* set without handle carries all its rows.
FC_Inline ==
  /\ job = "fetch" /\ fc.pc = "inline"
  /\ fc' = [fc EXCEPT !.pend = Transpose(PageData(0, fc.numRows)),
                      !.pc = IF fc.numRows = 0 THEN "close" ELSE "sendInline"]
  /\ UNCHANGED <<wire, ch, chClosed, got, flog>>
  /\ fetchUnchanged

\* transposeToChan: the next row goes onto the channel, when it has room;
\* after the last row the call returns.
FC_SendRow ==
  /\ job = "fetch" /\ fc.pc \in {"sendInline", "sendPage"}
  /\ fc.pend # <<>>
  /\ Len(ch) < FetchChanCap
  /\ ch' = Append(ch, Head(fc.pend))
  /\ fc' = [fc EXCEPT !.pend = Tail(fc.pend),
                      !.pc = IF Tail(fc.pend) # <<>> THEN fc.pc
                             ELSE IF fc.pc = "sendPage" THEN "loop"
                             ELSE "close"]
  /\ UNCHANGED <<wire, chClosed, got, flog>>
  /\ fetchUnchanged

Fetches == Len(SelectSeq(flog, LAMBDA e : e.cmd = "fetch"))

\* for i := 0; i < numRows; { chunk, err := c.send(fetchReq) ...: the write
\* of the fetch request with StartPosition i; panic(err) when it fails.
FC_FetchSend ==
  /\ job = "fetch" /\ fc.pc = "loop" /\ fc.i < fc.numRows
  /\ Fetches < MaxFetches
  /\ \/ /\ wire' = WriteJSON(wire, Request("fetch", fc.rsh, Len(flog) + 1))
        /\ flog' = Made("fetch", fc.i, "pending")
        /\ fc' = [fc EXCEPT !.pc = "fetchWait"]
     \/ /\ flog' = Made("fetch", fc.i, "unsent")
        /\ fc' = [fc EXCEPT !.pc = "panic"]
        /\ UNCHANGED wire
  /\ UNCHANGED <<ch, chClosed, got>>
  /\ fetchUnchanged

\* The offset advancing by one row a page.
Advance_byOne(i, rows) == i + 1

\* i += chunk["numRows"].(float64)
Advance(i, rows) == i + rows

\* The response to a fetch: an error (panic), or a page of the rows that
\* follow the start position (possibly none); the offset advances and
\* transposeToChan is entered with the page.
FC_FetchReceive ==
  /\ job = "fetch" /\ fc.pc = "fetchWait" /\ wire # <<>>
  /\ wire' = Tail(wire)
  /\ \/ /\ flog' = Answered("err", 0)
        /\ fc' = [fc EXCEPT !.pc = "panic"]
     \/ \E n \in 0..(fc.numRows - flog[Len(flog)].start) :
          /\ flog' = Answered("ok", n)
          /\ fc' = [fc EXCEPT
                      !.i = Advance(fc.i, n),
                      !.pend = Transpose(PageData(flog[Len(flog)].start, n)),
                      !.pc = IF n = 0 THEN "loop" ELSE "sendPage"]
  /\ UNCHANGED <<ch, chClosed, got>>
  /\ fetchUnchanged

\* _, err = c.send(closeRSReq), the write; a failure is only logged.
FC_CloseRSSend ==
  /\ job = "fetch" /\ fc.pc = "loop" /\ ~(fc.i < fc.numRows)
  /\ \/ /\ wire' = WriteJSON(wire, Request("closeResultSet", fc.rsh,
                                           Len(flog) + 1))
        /\ flog' = Made("closeResultSet", 0, "pending")
        /\ fc' = [fc EXCEPT !.pc = "closeRSWait"]
     \/ /\ flog' = Made("closeResultSet", 0, "unsent")
        /\ fc' = [fc EXCEPT !.pc = "close"]
        /\ UNCHANGED wire
  /\ UNCHANGED <<ch, chClosed, got>>
  /\ fetchUnchanged

\* _, err = c.send(closeRSReq), the read.
FC_CloseRSReceive ==
  /\ job = "fetch" /\ fc.pc = "closeRSWait" /\ wire # <<>>
  /\ wire' = Tail(wire)
  /\ \E out \in {"ok", "err"} : flog' = Answered(out, 0)
  /\ fc' = [fc EXCEPT !.pc = "close"]
  /\ UNCHANGED <<ch, chClosed, got>>
  /\ fetchUnchanged

\* close(ch)
FC_CloseChan ==
  /\ job = "fetch" /\ fc.pc = "close"
  /\ chClosed' = TRUE
  /\ fc' = [fc EXCEPT !.pc = "done"]
  /\ UNCHANGED <<wire, ch, got, flog>>
  /\ fetchUnchanged

\* The consumer receives a row (FetchSlice: for row := range resChan).
FC_Consume ==
  /\ job = "fetch" /\ ch # <<>>
  /\ got' = Append(got, Head(ch))
  /\ ch' = Tail(ch)
  /\ UNCHANGED <<wire, fc, chClosed, flog>>
  /\ fetchUnchanged

\* The steps of Execute while FetchChan has called it.
FC_Execute ==
  \/ ExecuteSend
  \/ ExecuteReceive
  \/ PrepareSend
  \/ PrepareReceive
  \/ ExecPrepSend
  \/ ExecPrepReceive
  \/ RetrySend
  \/ RetryReceive
  \/ CloseSend
  \/ CloseReceive
  \/ ServerEvict

NextFetch ==
  \/ \E sql \in SQLs, shape \in FetchBindShapes : FetchChan(sql, shape)
  \/ FC_Execute
  \/ FC_ExecuteReturn
  \/ FC_Branch
  \/ FC_Inline
  \/ FC_SendRow
  \/ FC_FetchSend
  \/ FC_FetchReceive
  \/ FC_CloseRSSend
  \/ FC_CloseRSReceive
  \/ FC_CloseChan
  \/ FC_Consume

InitFetchJob == Init /\ job = "fetch"

SpecFetch == InitFetchJob /\ [][NextFetch]_vars

\* The steps of FetchChan and of its producer task, the responses of the
\* server included.
FC_Producer ==
  \/ FC_Execute
  \/ FC_ExecuteReturn
  \/ FC_Branch
  \/ FC_Inline
  \/ FC_SendRow
  \/ FC_FetchSend
  \/ FC_FetchReceive
  \/ FC_CloseRSSend
  \/ FC_CloseRSReceive
  \/ FC_CloseChan

\* The producer task is scheduled and the server answers whenever they can
\* take a step, and the consumer keeps receiving.
SpecFetchLive ==
  /\ InitFetchJob
  /\ [][NextFetch]_vars
  /\ WF_vars(FC_Producer)
  /\ WF_vars(FC_Consume)

(* ----------------------------- Disconnect ----------------------------- *)

\* Disconnect is called by the caller of Execute, between two calls; its
\* position is kept in x.pc and its requests in xlog.

discUnchanged == UNCHANGED <<confVars, closeVars, fetchVars, bulkVars>>

\* asyncSend: c.ws.WriteJSON(request) failed; nothing is on the socket.
Unsent(cmd, sth) ==
  /\ xlog' = Append(xlog, [cmd |-> cmd, sth |-> sth, id |-> Len(xlog) + 1,
                           out |-> "unsent"])
  /\ UNCHANGED wire

\* Disconnect: the loop over the cache begins.
Disconnect ==
  /\ job = "execute" /\ x.pc = "idle" /\ wsOpen
  /\ x' = [x EXCEPT !.pc = "discLoop"]
  /\ todo' = {q \in SQLs : prepStmtCache[q] # 0}
  /\ xlog' = <<>> /\ xret' = <<>>
  /\ UNCHANGED <<wire, wsOpen, prepStmtCache, srvOpen, nextSth, calls>>
  /\ discUnchanged

\* for _, ps := range c.prepStmtCache { c.closePrepStmt(ps.sth) }: the
\* next entry, in any order, and the write of its close request.
Disc_CloseSend ==
  /\ job = "execute" /\ x.pc = "discLoop" /\ todo # {}
  /\ \E q \in todo :
       /\ todo' = todo \ {q}
       /\ \/ /\ Written("closePreparedStatement", prepStmtCache[q])
             /\ x' = [x EXCEPT !.pc = "discCloseWait"]
          \/ /\ Unsent("closePreparedStatement", prepStmtCache[q])
             /\ UNCHANGED x
  /\ UNCHANGED <<wsOpen, prepStmtCache, srvOpen, nextSth, calls, xret>>
  /\ discUnchanged

\* closePrepStmt, the response: the server has closed the handle (or did
\* not know it).
Disc_CloseReceive ==
  /\ job = "execute" /\ x.pc = "discCloseWait"
  /\ srvOpen' = srvOpen \ {Head(wire).sth}
  /\ Received(IF Head(wire).sth \in srvOpen THEN "ok" ELSE "other")
  /\ x' = [x EXCEPT !.pc = "discLoop"]
  /\ UNCHANGED <<wsOpen, todo, prepStmtCache, nextSth, calls, xret>>
  /\ discUnchanged

\* Disconnect returning when the disconnect command failed.
AfterDisconnect_returnOnError(out) ==
  IF out = "ok" THEN "wsClose" ELSE "disconnected"

\* if err != nil { c.log.Warning(...) }; then c.ws.Close() in every case.
AfterDisconnect(out) == "wsClose"

\* _, err := c.send(&disconnectJSON{Command: "disconnect"}), the write.
Disc_DisconnectSend ==
  /\ job = "execute" /\ x.pc = "discLoop" /\ todo = {}
  /\ \/ /\ Written("disconnect", 0)
        /\ x' = [x EXCEPT !.pc = "discWait"]
     \/ /\ Unsent("disconnect", 0)
        /\ x' = [x EXCEPT !.pc = AfterDisconnect("unsent")]
  /\ UNCHANGED <<wsOpen, todo, prepStmtCache, srvOpen, nextSth, calls, xret>>
  /\ discUnchanged

\* _, err := c.send(&disconnectJSON{Command: "disconnect"}), the read.
Disc_DisconnectReceive ==
  /\ job = "execute" /\ x.pc = "discWait"
  /\ \E out \in {"ok", "other"} :
       /\ Received(out)
       /\ x' = [x EXCEPT !.pc = AfterDisconnect(out)]
  /\ UNCHANGED <<wsOpen, todo, prepStmtCache, srvOpen, nextSth, calls, xret>>
  /\ discUnchanged

\* c.ws.Close(); c.ws = nil
Disc_CloseSocket ==
  /\ job = "execute" /\ x.pc = "wsClose"
  /\ wsOpen' = FALSE
  /\ x' = [x EXCEPT !.pc = "disconnected"]
  /\ UNCHANGED <<wire, todo, prepStmtCache, srvOpen, nextSth, calls, xlog,
                 xret>>
  /\ discUnchanged

NextDisconnect ==
  \/ NextExecute
  \/ Disconnect
  \/ Disc_CloseSend
  \/ Disc_CloseReceive
  \/ Disc_DisconnectSend
  \/ Disc_DisconnectReceive
  \/ Disc_CloseSocket

SpecDisconnect == InitExecute /\ [][NextDisconnect]_vars

(* ------------------------------ claims -------------------------------- *)

\* The attempt the history of the race (xfer, rsp, first, expired) is of.
LastAtt == IF pc = "init" THEN att - 1 ELSE att
LastReturned == LastAtt \in Attempts /\ ret[LastAtt] # <<>>

\* C1: at every moment at most one request has been written to the socket
\* without its response having been read.
C1_OneOutstanding == Outstanding <= 1

\* C2: when Execute with bindings got "Statement handle not found" for a
\* cached statement, the handle is out of the cache, at most one
\* createPreparedStatement and one more executePreparedStatement were
\* written, the latter with a new handle, and if that one succeeded the
\* caller is returned a nil error with the retry's response.
C2_RecoveryInvisible ==
  (/\ job = "execute" /\ x.pc = "idle" /\ xret # <<>> /\ x.hit
   /\ \E i \in 1..Len(xlog) : xlog[i].out = "nohandle") =>
    LET preps == {i \in 1..Len(xlog) : xlog[i].cmd = "createPreparedStatement"}
        execs == {i \in 1..Len(xlog) :
                    xlog[i].cmd = "executePreparedStatement"}
    IN  /\ prepStmtCache[x.sql] # x.ps
        /\ Cardinality(preps) <= 1
        /\ Cardinality(execs) <= 2
        /\ \A i \in execs :
             xlog[i].out = "ok" =>
               /\ xlog[i].sth # x.ps
               /\ xret[1] = [res |-> Payload(i), err |-> NoErr]

\* C3: if the first attempt of StreamExecute failed with the retryable
\* signature and zero bytes written, there is exactly one more attempt (a
\* second, never a third) and no "data already sent" is reported for the
\* first failure.
C3_RetryOnceAfterZeroBytes ==
  job = "import" =>
    /\ att <= 2
    /\ (ret[1] # <<>> /\ ret[1][1].err.sig = "refused0" /\ ret[1][1].bw = 0) =>
         /\ att = 2
         /\ <<"Retrying...", 1>> \in logged
         /\ <<"Data already sent can't retry...", 1>> \notin logged

C3_Witness ==
  /\ job = "import" /\ pc = "done" /\ att = 2 /\ ret[2] # <<>>
  /\ ret[1] # <<>> /\ ret[1][1].err.sig = "refused0" /\ ret[1][1].bw = 0

\* C4: if any byte was written to the server during an import attempt and
\* that attempt failed, StreamExecute starts no further attempt and returns
\* the attempt's error.
C4_NoRetryAfterBytesWritten ==
  job = "import" =>
    \A k \in Attempts :
      (ret[k] # <<>> /\ ret[k][1].err # NoErr /\ moved[k] > 0) =>
        (att = k /\ pc = "done" /\ result = <<ret[k][1].err>>)

\* C5: StreamExecute returns a nil error only if its last attempt
\* succeeded.
C5_NilOnlyAfterSuccess ==
  (job = "import" /\ pc = "done" /\ result = <<NoErr>>) =>
    ret[att][1].err = NoErr

\* C6: StreamQuery makes at most three attempts, starts a further attempt
\* only after an attempt that failed with the retryable signature, and any
\* other error ends the loop and is recorded in Rows.Error; StreamQuery
\* itself returns no error.
C6_ExportRetryPolicy ==
  job = "export" =>
    /\ att <= 3
    /\ \A k \in Attempts :
         (k > 1 /\ att >= k) =>
           (ret[k - 1] # <<>> /\ ret[k - 1][1].err.sig = "refused0")
    /\ \A k \in Attempts :
         (ret[k] # <<>> /\ ret[k][1].err # NoErr
            /\ ret[k][1].err.sig # "refused0") =>
           (att = k /\ pc = "done" /\ dataClosed /\ rowsError = ret[k][1].err)
    /\ result = <<>>

C6_Witness ==
  /\ job = "export" /\ pc = "done" /\ att = 3
  /\ ret[3] # <<>> /\ ret[3][1].err.sig = "other"
  /\ rowsError = ret[3][1].err

\* C7: once the Data channel of an export has been closed, Rows.Error is
\* nil only if the last attempt succeeded, and so is BulkQuery's error.
C7_RowsErrorNilOnlyAfterSuccess ==
  (job = "export" /\ dataClosed) =>
    /\ rowsError = NoErr => ret[att][1].err = NoErr
    /\ BulkQueryResult = NoErr => ret[att][1].err = NoErr

\* C8: the result of a bulk attempt whose timer did not fire is decided by
\* the race: an error of the first outcome to resolve is the result (either
\* error when both had failed); after a first outcome without error the
\* attempt waits for the other and returns its outcome; the attempt
\* succeeds only if both the transfer and the command response did.
C8_RaceDecidesResult ==
  (job = "import" /\ LastReturned /\ first # "none" /\ clock < Timeout) =>
    LET r == ret[LastAtt][1].err
        f == IF first = "data" THEN xfer[1] ELSE rsp[1]
        o == IF first = "data" THEN rsp ELSE xfer
    IN  /\ f # NoErr =>
             /\ r # NoErr
             /\ \/ r.sig = f.sig
                \/ o # <<>> /\ o[1] # NoErr /\ r.sig = o[1].sig
        /\ f = NoErr => (o # <<>> /\ r.sig = o[1].sig)
        /\ r = NoErr => (xfer = <<NoErr>> /\ rsp = <<NoErr>>)

\* C9: with Timeout > 0, an attempt whose transfer and command response had
\* not both resolved (and neither failed) when Timeout seconds had passed
\* since the race began ends with the timeout error, also when the first
\* outcome had resolved successfully and the attempt was waiting for the
\* second.  (Attempts in which an unsynchronised access to err changed what
\* was read are left aside.)
C9_TimeoutBoundsRace ==
  (/\ job = "import" /\ Timeout > 0 /\ LastReturned /\ expired # "no"
   /\ ~ret[LastAtt][1].raced) =>
    ret[LastAtt][1].err.sig = "timeout"

\* C10: with Timeout = 0 no bulk attempt ends with the timeout error.
C10_ZeroDisablesTimeout ==
  (job = "import" /\ Timeout = 0) =>
    \A k \in Attempts : ret[k] # <<>> => ret[k][1].err.sig # "timeout"

\* C11: when a Close call that signalled a running transfer has returned,
\* the Data channel is closed, Rows.Error is nil and the attempt it
\* signalled was the last one (an export that timed out aside).
C11_CloseSurfacesNoError ==
  job = "close" =>
    \A c \in Closers :
      (cl[c].pc = "closed" /\ cl[c].sig # 0 /\ rowsError.sig # "timeout") =>
        (dataClosed /\ rowsError = NoErr /\ att = cl[c].sig)

\* C12: when every Close call that began has returned, SuppressError is
\* what it was before the first of them.
C12_SuppressErrorRestored ==
  (job = "close" /\ \A c \in Closers : cl[c].pc \in {"idle", "closed"}) =>
    SuppressError = FALSE

\* C13: with caching disabled, when an Execute call with bindings that
\* could write its closePreparedStatement has returned, no statement handle
\* prepared for or by that call is still open on the server.
C13_ClosesWhatItPrepared ==
  (/\ job = "execute" /\ ~CachePrepStmts /\ x.pc = "idle" /\ xret # <<>>
   /\ xlog # <<>> /\ xlog[Len(xlog)].cmd = "closePreparedStatement") =>
    (x.ps \notin srvOpen /\ x.ps2 \notin srvOpen)

\* C14: an Execute call without bindings writes one request, a direct
\* execute, reads one response and returns that response's payload and
\* error as they are; it leaves the prepared-statement cache as it was.
C14_SimpleExecuteOneRequest ==
  [][/\ x.pc \in {"execute", "executeWait"} =>
          /\ prepStmtCache' = prepStmtCache
          /\ Len(xlog') <= 1
     /\ (x.pc = "executeWait" /\ x'.pc = "idle") =>
          /\ Len(xlog') = 1
          /\ xlog'[1].cmd = "execute"
          /\ xlog'[1].out # "pending"
          /\ wire' = <<>>
          /\ xret' = <<[res |-> IF xlog'[1].out = "ok"
                                  THEN Payload(xlog'[1].id) ELSE NoRes,
                        err |-> ErrOf(xlog'[1].out)]>>]_vars

C14_Witness ==
  /\ job = "execute" /\ x.pc = "idle" /\ xret # <<>>
  /\ Len(xlog) = 1 /\ xlog[1].cmd = "execute" /\ xlog[1].out = "ok"
  /\ xret[1].res = Payload(1)

\* The rows the fetch responses recorded in a request log returned, in all.
RECURSIVE RowsReturned(_)
RowsReturned(log) ==
  IF log = <<>> THEN 0
  ELSE RowsReturned(SubSeq(log, 1, Len(log) - 1)) + log[Len(log)].rows

\* The first n rows of the result set, in source row order.
SourceRows(n) == [r \in 1..n |-> [c \in 1..NumCols |-> Cell(r, c)]]

\* C15: once the query of FetchChan has reported zero rows, with or without
\* a result-set handle, the producer makes no request (no fetch and no
\* closeResultSet), no row is on the channel or delivered, the producer
\* goes straight to closing the channel, and when it has finished the
\* channel is closed.
C15_ZeroRowsClosedChannel ==
  (job = "fetch" /\ fc.pc \notin {"idle", "execute", "failed"}
     /\ fc.numRows = 0) =>
    /\ flog = <<>>
    /\ ch = <<>> /\ got = <<>> /\ fc.pend = <<>>
    /\ fc.pc \in {"producer", "close", "done"}
    /\ fc.pc = "done" => chClosed

C15_Witness ==
  /\ job = "fetch" /\ fc.numRows = 0 /\ fc.rsh # 0
  /\ fc.pc = "done" /\ chClosed /\ flog = <<>>

\* C16: for a result set with a handle and R > 0 rows, every fetch request
\* starts at the number of rows all earlier fetch responses returned (the
\* first at 0) and is made only while that number is below R; a
\* closeResultSet is requested only once that number is R, at most once and
\* as the last request (c.send is called for it once; a failed write counts
\* as the request); the channel is closed only after the closeResultSet
\* call has returned; and the rows delivered and waiting on the channel are
\* always the rows of the pages returned so far in source row order, the
\* full result once the channel is closed.
C16_FetchPagination ==
  (job = "fetch" /\ fc.rsh # 0 /\ fc.numRows > 0) =>
    /\ \A k \in 1..Len(flog) :
         LET before == RowsReturned(SubSeq(flog, 1, k - 1))
         IN  /\ flog[k].cmd = "fetch" =>
                  (flog[k].start = before /\ before < fc.numRows)
             /\ flog[k].cmd = "closeResultSet" =>
                  (k = Len(flog) /\ before = fc.numRows)
    /\ got \o ch \o fc.pend = SourceRows(RowsReturned(flog))
    /\ chClosed =>
         /\ flog[Len(flog)].cmd = "closeResultSet"
         /\ flog[Len(flog)].out # "pending"
         /\ got \o ch = SourceRows(fc.numRows)

C16_Witness ==
  /\ job = "fetch" /\ fc.rsh # 0 /\ fc.numRows = MaxRows /\ chClosed
  /\ Fetches >= 2 /\ flog[2].start >= 2
  /\ got = SourceRows(MaxRows)

\* C17: in Disconnect the disconnect command is the last request made; a
\* close request for every handle in the cache was made before it (a
\* failed write counts as the request made); the socket is closed only
\* after the disconnect command has returned; and when Disconnect has
\* returned the socket is closed, whatever the outcome of the command.
C17_DisconnectOrder ==
  (job = "execute"
     /\ x.pc \in {"discLoop", "discCloseWait", "discWait", "wsClose",
                  "disconnected"}) =>
    /\ \A k \in 1..Len(xlog) :
         xlog[k].cmd = "disconnect" =>
           /\ k = Len(xlog)
           /\ \A q \in SQLs :
                prepStmtCache[q] # 0 =>
                  \E j \in 1..(k - 1) :
                    /\ xlog[j].cmd = "closePreparedStatement"
                    /\ xlog[j].sth = prepStmtCache[q]
    /\ ~wsOpen =>
         /\ xlog # <<>>
         /\ xlog[Len(xlog)].cmd = "disconnect"
         /\ xlog[Len(xlog)].out # "pending"
    /\ x.pc = "disconnected" => ~wsOpen

C17_Witness ==
  /\ job = "execute" /\ x.pc = "disconnected" /\ ~wsOpen
  /\ \A q \in SQLs : prepStmtCache[q] # 0
  /\ Len(xlog) = 3 /\ xlog[3].cmd = "disconnect" /\ xlog[3].out = "other"

\* C18: an export attempt that failed after its endpoint had pushed a chunk
\* to the Data channel is the last attempt of the export.
C18_NoExportRetryAfterData ==
  job = "export" =>
    \A k \in Attempts :
      (ret[k] # <<>> /\ ret[k][1].err # NoErr /\ moved[k] > 0) => att = k

\* C19: the response a bulk attempt's response reader takes from the socket
\* is the response to the command that attempt wrote.
C19_ResponseCorrelated ==
  [][\A k \in Attempts :
       (bSt[k] = "run" /\ bSt'[k] = "done") => Head(wire).id = k]_vars

\* C20: when StreamExecute returns nil after a last attempt that succeeded
\* (its transfer and its command response both did), every chunk the caller
\* supplied was written to the server by that attempt.
C20_NoChunkLostOnRetry ==
  (/\ job = "import" /\ pc = "done" /\ result = <<NoErr>>
   /\ ret[att] # <<>> /\ ret[att][1].err = NoErr
   /\ xfer = <<NoErr>> /\ rsp = <<NoErr>> /\ ~ret[att][1].raced) =>
    moved[att] = MaxChunks


\* The endpoints of a bulk job that are running.
Running == {k \in Attempts : proxyUp[k]}

\* C21: the endpoint of a bulk attempt that has returned is shut down,
\* whatever the attempt returned; at most one endpoint of a bulk job runs
\* at a time; and none runs once StreamExecute has returned or the Data
\* channel of an export is closed.
C21_EndpointsShutDown ==
  /\ \A k \in Attempts : ret[k] # <<>> => ~proxyUp[k]
  /\ Cardinality(Running) <= 1
  /\ (job = "import" /\ pc = "done") => Running = {}
  /\ (job = "export" /\ dataClosed) => Running = {}

C21_Witness ==
  /\ job = "import" /\ pc = "done" /\ att = 2
  /\ aSt[1] # "none" /\ ret[1] # <<>> /\ ret[1][1].err # NoErr
  /\ aSt[2] = "none" /\ ret[2] # <<>> /\ ret[2][1].err = SendErr
  /\ Running = {}

\* C22: once FetchChan has returned a channel, the channel is eventually
\* closed, given that the producer is scheduled, the server answers and the
\* consumer keeps receiving (calls that need more than MaxFetches fetch
\* requests are not followed to their end).
C22_ChannelEventuallyClosed ==
  (job = "fetch" /\ fc.pc = "producer") ~>
    (chClosed \/ Fetches >= MaxFetches)

====
